---- MODULE Spec2Model ----
(***************************************************************************)
(* es2ts: conversion of an elementary video stream (ES) to an H.222        *)
(* transport stream (TS).  The model follows main() and transfer_data()    *)
(* of the es2ts program statement by statement.  One action is one         *)
(* iteration of the command-line loop, or one stretch of main() /          *)
(* transfer_data() that starts with a call into the ES / TS libraries and  *)
(* runs up to the next such call.  The libraries' outcomes (success,       *)
(* failure, detected type, units found in the input) are the inputs.       *)
(***************************************************************************)
EXTENDS Integers, Sequences, FiniteSets, TLC

\* ------------------------------------------------------------------ bounds

\* Most command-line words (argc - 1) of a modelled run.
MaxArgs == 4
\* Most ES units held by a modelled input.
MaxUnits == 2
\* Largest value given to -max.
MaxCap == 3

\* --------------------------------------------------------------- constants

VIDEO_H262 == "VIDEO_H262"
VIDEO_H264 == "VIDEO_H264"
VIDEO_AVS == "VIDEO_AVS"
VIDEO_UNKNOWN == "VIDEO_UNKNOWN"

MPEG2_VIDEO_STREAM_TYPE == 2
AVC_VIDEO_STREAM_TYPE == 27
AVS_VIDEO_STREAM_TYPE == 66
DEFAULT_VIDEO_STREAM_ID == 224

DefaultVideoPid == 104
DefaultPmtPid == 102

EOF == -1

TS_W_STDOUT == "TS_W_STDOUT"
TS_W_TCP == "TS_W_TCP"
TS_W_FILE == "TS_W_FILE"

\* ------------------------------------------------------------------ inputs

\* PID values a -pid / -pmt argument may parse to (0x0000, 0x66, 0x68, 0x1FFF).
PidValues == {0, 102, 104, 8191}
\* Non-zero error codes a library call may return.
ErrCodes == {1, 2}
\* The data of the ES units an input may hold: each starts 00 00 01 <sc>.
UnitData == {<<0, 0, 1, 179>>, <<0, 0, 1, 0, 7>>}
ESUnit(d) == [data |-> d, data_len |-> Len(d)]
RECURSIVE SeqsUpTo(_, _)
SeqsUpTo(S, n) ==
    IF n = 0 THEN {<<>>}
    ELSE LET shorter == SeqsUpTo(S, n - 1)
         IN  shorter \cup {Append(s, x) : s \in {t \in shorter : Len(t) = n - 1}, x \in S}
\* The inputs: every sequence of at most MaxUnits units.
ESInputs == SeqsUpTo({ESUnit(d) : d \in UnitData}, MaxUnits)

NoUnit == [data |-> <<>>, data_len |-> 0]
Running == "running"

\* ------------------------------------------------------------------- state

VARIABLES
    pc,                 \* where main() / transfer_data() stands
    ii,                 \* index of the next command-line word
    use_stdin, use_stdout, use_tcpip,
    had_input_name, had_output_name,
    verbose, quiet, max2, video_pid, pmt_pid,
    video_type, force_stream_type, stream_type,
    fns,                \* the print-function table of printing.h
    es,                 \* the input elementary stream handle
    output,             \* the TS writer handle
    unit,               \* transfer_data's unit in hand
    count,              \* transfer_data's count
    err,                \* main's err
    calls,              \* the library calls made so far, in order, with arguments and results
    exit_status         \* main's return value, Running until it returns

cfgVars == <<use_stdin, use_stdout, use_tcpip, had_input_name, had_output_name,
             verbose, quiet, max2, video_pid, pmt_pid, video_type,
             force_stream_type, stream_type, fns>>
runVars == <<es, output, unit, count, err, calls>>
es2tsVars == <<pc, ii, cfgVars, runVars, exit_status>>

\* tsfilter
VARIABLES
    tf_pc,              \* where tsfilter's main() stands
    tf_ii,              \* tsfilter's ii: index of the next command-line word
    tf_last,            \* -max, -input or -output was the last word (ii + 1 = argn): no value follows it
    invert, max_pkts, input_file, output_file,
    pidList,            \* the PIDs to filter in; pidListUsed is its length
    pkt_num,
    pkt,                \* main's pkt: the index of the packet it points at, 0 for nullptr
    tsreader,           \* the TS reader handle and the packets it delivers
    tswriter,           \* the TS writer handle and the tswrite_write calls made on it
    tf_exit             \* tsfilter's return value, Running until it returns

tfVars == <<tf_pc, tf_ii, tf_last, invert, max_pkts, input_file, output_file,
            pidList, pkt_num, pkt, tsreader, tswriter, tf_exit>>

\* printing.h, used on its own
VARIABLES
    pr_last,            \* the most recent redirect call, with its arguments and result
    pr_log              \* the print calls made so far and where each one wrote

prVars == <<pr_last, pr_log>>

vars == <<es2tsVars, tfVars, prVars>>

\* ------------------------------------------------------------ printing.h

\* fns as initialised: all output to stdout.
FnsDefault ==
    [print_message_fn |-> "print_message_to_stdout",
     print_error_fn |-> "print_message_to_stdout",
     fprint_message_fn |-> "fprint_message_to_stdout",
     fprint_error_fn |-> "fprint_message_to_stdout",
     flush_message_fn |-> "flush_stdout"]

\* redirect_output_stderr with the unformatted error function left on stdout.
redirect_output_stderr_ErrorsStayOnStdout ==
    [print_message_fn |-> "print_message_to_stdout",
     print_error_fn |-> "print_message_to_stdout",
     fprint_message_fn |-> "fprint_message_to_stdout",
     fprint_error_fn |-> "fprint_message_to_stderr",
     flush_message_fn |-> "flush_stdout"]

redirect_output_stderr ==
    [print_message_fn |-> "print_message_to_stdout",
     print_error_fn |-> "print_message_to_stderr",
     fprint_message_fn |-> "fprint_message_to_stdout",
     fprint_error_fn |-> "fprint_message_to_stderr",
     flush_message_fn |-> "flush_stdout"]

redirect_output_stdout ==
    [print_message_fn |-> "print_message_to_stdout",
     print_error_fn |-> "print_message_to_stdout",
     fprint_message_fn |-> "fprint_message_to_stdout",
     fprint_error_fn |-> "fprint_message_to_stdout",
     flush_message_fn |-> "flush_stdout"]

\* -------------------------------------------------------------------- Init

\* tsfilter's globals and main's locals: max_pkts = (unsigned int)-1, no
\* file names, an empty PID list.
\* unsigned int is 32 bits wide: its arithmetic is modulo 2^32.  A value is
\* held as its two 16-bit halves, value = hi * HalfWord + lo.
HalfWord == 65536
\* (unsigned int)n for an int n, in two's complement.
ToUnsigned(n) == [hi |-> (n \div HalfWord) % HalfWord, lo |-> n % HalfWord]
\* ++u
UIntSucc(u) ==
    IF u.lo = HalfWord - 1
    THEN [hi |-> (u.hi + 1) % HalfWord, lo |-> 0]
    ELSE [hi |-> u.hi, lo |-> u.lo + 1]
\* a > b
UIntGreater(a, b) == a.hi > b.hi \/ (a.hi = b.hi /\ a.lo > b.lo)
\* (unsigned int)-1
NoMax == ToUnsigned(-1)
NullPtr == "nullptr"

TfInit ==
    /\ tf_pc = "parse"
    /\ tf_ii = 1
    /\ tf_last = FALSE
    /\ invert = 0
    /\ max_pkts = NoMax
    /\ input_file = NullPtr
    /\ output_file = NullPtr
    /\ pidList = <<>>
    /\ pkt_num = ToUnsigned(0)
    /\ pkt = 0
    /\ tsreader = [state |-> "none", packets |-> <<>>, pos |-> 0, errors |-> 0,
                   eof |-> FALSE]
    /\ tswriter = [state |-> "none", how |-> "none", written |-> <<>>]
    /\ tf_exit = Running

\* printing.h before any redirect call or print call.
PrInit ==
    /\ pr_last = [op |-> "none"]
    /\ pr_log = <<>>


Init ==
    /\ pc = "parse"
    /\ ii = 1
    /\ use_stdin = FALSE
    /\ use_stdout = FALSE
    /\ use_tcpip = FALSE
    /\ had_input_name = FALSE
    /\ had_output_name = FALSE
    /\ verbose = FALSE
    /\ quiet = FALSE
    /\ max2 = 0
    /\ video_pid = DefaultVideoPid
    /\ pmt_pid = DefaultPmtPid
    /\ video_type = VIDEO_H262
    /\ force_stream_type = FALSE
    /\ stream_type = 0
    /\ fns = FnsDefault
    /\ es = [state |-> "none", units |-> <<>>, pos |-> 0, closes |-> 0]
    /\ output = [state |-> "none", how |-> "none", closes |-> 0]
    /\ unit = NoUnit
    /\ count = 0
    /\ err = 0
    /\ calls = <<>>
    /\ exit_status = Running
    /\ TfInit
    /\ PrInit

\* ---------------------------------------------------- main: command line

\* main returns `status`.
Return(status) ==
    /\ pc' = "done"
    /\ exit_status' = status

\* argv[ii] exists (ii < argc).
HasArg == pc = "parse" /\ ii <= MaxArgs
\* argv[ii + 1] exists too: CHECKARG lets the switch read its value.
HasValue == HasArg /\ ii + 1 <= MaxArgs

\* --help, -help, -h
SwHelp ==
    /\ HasArg
    /\ Return(0)
    /\ UNCHANGED <<tfVars, prVars, ii, cfgVars, runVars>>

\* -avc / -h264 (VIDEO_H264), -h262 (VIDEO_H262), -avs (VIDEO_AVS)
SwForce ==
    /\ HasArg
    /\ \E t \in {VIDEO_H264, VIDEO_H262, VIDEO_AVS} :
          /\ force_stream_type' = TRUE
          /\ video_type' = t
    /\ ii' = ii + 1
    /\ UNCHANGED <<tfVars, prVars, pc, exit_status, runVars, use_stdin, use_stdout, use_tcpip,
                   had_input_name, had_output_name, verbose, quiet, max2,
                   video_pid, pmt_pid, stream_type, fns>>

\* -stdin
SwStdin ==
    /\ HasArg
    /\ had_input_name' = TRUE
    /\ use_stdin' = TRUE
    /\ ii' = ii + 1
    /\ UNCHANGED <<tfVars, prVars, pc, exit_status, runVars, use_stdout, use_tcpip,
                   had_output_name, verbose, quiet, max2, video_pid, pmt_pid,
                   video_type, force_stream_type, stream_type, fns>>

\* -stdout
SwStdout ==
    /\ HasArg
    /\ had_output_name' = TRUE
    /\ use_stdout' = TRUE
    /\ fns' = redirect_output_stderr
    /\ ii' = ii + 1
    /\ UNCHANGED <<tfVars, prVars, pc, exit_status, runVars, use_stdin, use_tcpip,
                   had_input_name, verbose, quiet, max2, video_pid, pmt_pid,
                   video_type, force_stream_type, stream_type>>

\* -err stderr | -err stdout | -err <anything else>
SwErr ==
    /\ HasValue
    /\ \E v \in {"stderr", "stdout", "other"} :
          CASE v = "stderr" ->
                  /\ fns' = redirect_output_stderr
                  /\ ii' = ii + 2
                  /\ UNCHANGED <<pc, exit_status>>
            [] v = "stdout" ->
                  /\ fns' = redirect_output_stdout
                  /\ ii' = ii + 2
                  /\ UNCHANGED <<pc, exit_status>>
            [] OTHER ->
                  /\ Return(1)
                  /\ UNCHANGED <<fns, ii>>
    /\ UNCHANGED <<tfVars, prVars, runVars, use_stdin, use_stdout, use_tcpip, had_input_name,
                   had_output_name, verbose, quiet, max2, video_pid, pmt_pid,
                   video_type, force_stream_type, stream_type>>

\* -host <host>[:<port>]; host_value may reject the value.
SwHost ==
    /\ HasValue
    /\ \E e \in {0} \cup ErrCodes :
          IF e # 0
          THEN /\ Return(1)
               /\ UNCHANGED <<ii, had_output_name, use_tcpip>>
          ELSE /\ had_output_name' = TRUE
               /\ use_tcpip' = TRUE
               /\ ii' = ii + 2
               /\ UNCHANGED <<pc, exit_status>>
    /\ UNCHANGED <<tfVars, prVars, runVars, use_stdin, use_stdout, had_input_name, verbose,
                   quiet, max2, video_pid, pmt_pid, video_type,
                   force_stream_type, stream_type, fns>>

\* -verbose, -v
SwVerbose ==
    /\ HasArg
    /\ verbose' = TRUE
    /\ quiet' = FALSE
    /\ ii' = ii + 1
    /\ UNCHANGED <<tfVars, prVars, pc, exit_status, runVars, use_stdin, use_stdout, use_tcpip,
                   had_input_name, had_output_name, max2, video_pid, pmt_pid,
                   video_type, force_stream_type, stream_type, fns>>

\* -quiet, -q
SwQuiet ==
    /\ HasArg
    /\ verbose' = FALSE
    /\ quiet' = TRUE
    /\ ii' = ii + 1
    /\ UNCHANGED <<tfVars, prVars, pc, exit_status, runVars, use_stdin, use_stdout, use_tcpip,
                   had_input_name, had_output_name, max2, video_pid, pmt_pid,
                   video_type, force_stream_type, stream_type, fns>>

\* -max <n>, -m <n>; int_value (positive, base 10) may reject the value.
SwMax ==
    /\ HasValue
    /\ \E e \in {0} \cup ErrCodes :
          IF e # 0
          THEN /\ Return(1)
               /\ UNCHANGED <<ii, max2>>
          ELSE /\ \E n \in 0..MaxCap : max2' = n
               /\ ii' = ii + 2
               /\ UNCHANGED <<pc, exit_status>>
    /\ UNCHANGED <<tfVars, prVars, runVars, use_stdin, use_stdout, use_tcpip, had_input_name,
                   had_output_name, verbose, quiet, video_pid, pmt_pid,
                   video_type, force_stream_type, stream_type, fns>>

\* -pid <pid>; unsigned_value may reject the value.
SwPid ==
    /\ HasValue
    /\ \E e \in {0} \cup ErrCodes :
          IF e # 0
          THEN /\ Return(1)
               /\ UNCHANGED <<ii, video_pid>>
          ELSE /\ \E p \in PidValues : video_pid' = p
               /\ ii' = ii + 2
               /\ UNCHANGED <<pc, exit_status>>
    /\ UNCHANGED <<tfVars, prVars, runVars, use_stdin, use_stdout, use_tcpip, had_input_name,
                   had_output_name, verbose, quiet, max2, pmt_pid,
                   video_type, force_stream_type, stream_type, fns>>

\* -pmt <pid>; unsigned_value may reject the value.
SwPmt ==
    /\ HasValue
    /\ \E e \in {0} \cup ErrCodes :
          IF e # 0
          THEN /\ Return(1)
               /\ UNCHANGED <<ii, pmt_pid>>
          ELSE /\ \E p \in PidValues : pmt_pid' = p
               /\ ii' = ii + 2
               /\ UNCHANGED <<pc, exit_status>>
    /\ UNCHANGED <<tfVars, prVars, runVars, use_stdin, use_stdout, use_tcpip, had_input_name,
                   had_output_name, verbose, quiet, max2, video_pid,
                   video_type, force_stream_type, stream_type, fns>>

\* CHECKARG: -err, -host, -max, -pid or -pmt is the last word.
SwMissingValue ==
    /\ HasArg
    /\ Return(1)
    /\ UNCHANGED <<tfVars, prVars, ii, cfgVars, runVars>>

\* Any other word that starts with '-'.
SwUnrecognised ==
    /\ HasArg
    /\ Return(1)
    /\ UNCHANGED <<tfVars, prVars, ii, cfgVars, runVars>>

\* A word that does not start with '-': <infile>, then <outfile>.
Positional ==
    /\ HasArg
    /\ IF had_input_name /\ had_output_name
       THEN /\ Return(1)
            /\ UNCHANGED <<ii, had_input_name, had_output_name>>
       ELSE /\ IF had_input_name
               THEN /\ had_output_name' = TRUE
                    /\ UNCHANGED had_input_name
               ELSE /\ had_input_name' = TRUE
                    /\ UNCHANGED had_output_name
            /\ ii' = ii + 1
            /\ UNCHANGED <<pc, exit_status>>
    /\ UNCHANGED <<tfVars, prVars, runVars, use_stdin, use_stdout, use_tcpip, verbose, quiet,
                   max2, video_pid, pmt_pid, video_type, force_stream_type,
                   stream_type, fns>>

\* The command line ends (ii = argc).  With no word at all (argc < 2) main
\* prints the usage and returns 0; otherwise it checks that both names were
\* given and, for -stdout, turns messages off.
EndArgs ==
    /\ pc = "parse"
    /\ IF ii = 1
       THEN /\ Return(0)
            /\ UNCHANGED <<verbose, quiet>>
       ELSE IF ~had_input_name \/ ~had_output_name
       THEN /\ Return(1)
            /\ UNCHANGED <<verbose, quiet>>
       ELSE /\ verbose' = (IF use_stdout THEN FALSE ELSE verbose)
            /\ quiet' = (IF use_stdout THEN TRUE ELSE quiet)
            /\ pc' = "open_es"
            /\ UNCHANGED exit_status
    /\ UNCHANGED <<tfVars, prVars, ii, runVars, use_stdin, use_stdout, use_tcpip,
                   had_input_name, had_output_name, max2, video_pid, pmt_pid,
                   video_type, force_stream_type, stream_type, fns>>


\* ------------------------------------------------- the ES and TS libraries

\* close_elementary_stream(&es)
close_elementary_stream(e) ==
    [e EXCEPT !.state = "closed", !.closes = @ + 1]

\* find_and_build_next_ES_unit(es, &unit): the outcomes it may have on `e`.
\* It fails, or it reports EOF once every unit of the input has been
\* returned, or it returns the next unit of the input.
find_and_build_next_ES_unit(e) ==
    {[res |-> c, unit |-> NoUnit, es |-> e] : c \in ErrCodes}
    \cup (IF e.pos = Len(e.units)
          THEN {[res |-> EOF, unit |-> NoUnit, es |-> e]}
          ELSE {[res |-> 0, unit |-> e.units[e.pos + 1],
                 es |-> [e EXCEPT !.pos = @ + 1]]})

\* --------------------------------------------------- main: the stream type

\* A test that forgets stdin: `force_stream_type` alone.
DetectionSkipped_ForgetsStdin == force_stream_type

\* main: `force_stream_type || use_stdin`: the type is not detected.
DetectionSkipped == force_stream_type \/ use_stdin

\* A switch with no VIDEO_UNKNOWN case: every type goes on to the output.
VideoTypeRecognised_NoUnknownCase(vt) == TRUE

\* main's switch (video_type): the case is one of H.262, H.264, AVS.
VideoTypeRecognised(vt) == vt \in {VIDEO_H262, VIDEO_H264, VIDEO_AVS}

\* A switch whose H.264 case sets the MPEG-2 stream type.
StreamTypeOf_H264AsMpeg2(vt) ==
    CASE vt = VIDEO_H262 -> MPEG2_VIDEO_STREAM_TYPE
      [] vt = VIDEO_H264 -> MPEG2_VIDEO_STREAM_TYPE
      [] vt = VIDEO_AVS -> AVS_VIDEO_STREAM_TYPE
      [] OTHER -> stream_type

\* main's switch (video_type): the stream type each case sets; VIDEO_UNKNOWN
\* (and any other value) leaves stream_type as it is.
StreamTypeOf(vt) ==
    CASE vt = VIDEO_H262 -> MPEG2_VIDEO_STREAM_TYPE
      [] vt = VIDEO_H264 -> AVC_VIDEO_STREAM_TYPE
      [] vt = VIDEO_AVS -> AVS_VIDEO_STREAM_TYPE
      [] OTHER -> stream_type

\* main's switch (video_type) on the stream handle `e`: a recognised type
\* sets stream_type and main goes on to open the output; VIDEO_UNKNOWN
\* closes the input and returns 1.
VideoTypeSwitch(vt, e) ==
    IF VideoTypeRecognised(vt)
    THEN /\ stream_type' = StreamTypeOf(vt)
         /\ es' = e
         /\ pc' = "open_out"
         /\ UNCHANGED exit_status
    ELSE /\ es' = close_elementary_stream(e)
         /\ Return(1)
         /\ UNCHANGED stream_type

\* open_elementary_stream(use_stdin ? nullptr : input_name, &es), and, when
\* the type is forced or the input is stdin, the switch on video_type.
OpenElementaryStream ==
    /\ pc = "open_es"
    /\ \E e \in {0} \cup ErrCodes :
          /\ calls' = Append(calls, [op |-> "open_elementary_stream",
                                     from |-> IF use_stdin THEN "stdin" ELSE "file",
                                     res |-> e])
          /\ IF e # 0
             THEN /\ Return(1)
                  /\ UNCHANGED <<es, stream_type>>
             ELSE \E input \in ESInputs :
                     LET opened == [state |-> "open", units |-> input,
                                    pos |-> 0, closes |-> 0]
                     IN  IF DetectionSkipped
                         THEN VideoTypeSwitch(video_type, opened)
                         ELSE /\ es' = opened
                              /\ pc' = "decide"
                              /\ UNCHANGED <<exit_status, stream_type>>
    /\ UNCHANGED <<tfVars, prVars, ii, output, unit, count, err, use_stdin, use_stdout,
                   use_tcpip, had_input_name, had_output_name, verbose, quiet,
                   max2, video_pid, pmt_pid, video_type, force_stream_type, fns>>

\* decide_ES_file_video_type(es->input, false, verbose, &video_type), then
\* the switch on video_type.
DecideVideoType ==
    /\ pc = "decide"
    /\ \E e \in {0} \cup ErrCodes :
          /\ calls' = Append(calls, [op |-> "decide_ES_file_video_type", res |-> e])
          /\ IF e # 0
             THEN /\ es' = close_elementary_stream(es)
                  /\ Return(1)
                  /\ UNCHANGED <<video_type, stream_type>>
             ELSE \E vt \in {VIDEO_H262, VIDEO_H264, VIDEO_AVS, VIDEO_UNKNOWN} :
                     /\ video_type' = vt
                     /\ VideoTypeSwitch(vt, es)
    /\ UNCHANGED <<tfVars, prVars, ii, output, unit, count, err, use_stdin, use_stdout,
                   use_tcpip, had_input_name, had_output_name, verbose, quiet,
                   max2, video_pid, pmt_pid, force_stream_type, fns>>

\* ------------------------------------------------------- main: the output

\* The kind of writer main asks tswrite_open for.
WriterKind ==
    IF use_stdout THEN TS_W_STDOUT
    ELSE IF use_tcpip THEN TS_W_TCP
    ELSE TS_W_FILE

\* A main that returns on a failed tswrite_open without closing the input.
EsAfterOpenOutputFailure_Leaks == es

\* main, when tswrite_open fails: close_elementary_stream(&es).
EsAfterOpenOutputFailure == close_elementary_stream(es)

\* tswrite_open(...): on failure main closes the input and returns 1.
OpenOutput ==
    /\ pc = "open_out"
    /\ \E e \in {0} \cup ErrCodes :
          /\ calls' = Append(calls, [op |-> "tswrite_open", how |-> WriterKind,
                                     quiet |-> quiet, res |-> e])
          /\ IF e # 0
             THEN /\ es' = EsAfterOpenOutputFailure
                  /\ Return(1)
                  /\ UNCHANGED output
             ELSE /\ output' = [state |-> "open", how |-> WriterKind, closes |-> 0]
                  /\ pc' = "psi"
                  /\ UNCHANGED <<es, exit_status>>
    /\ UNCHANGED <<tfVars, prVars, ii, cfgVars, unit, count, err>>

\* ------------------------------------------------------------ transfer_data

\* The call write_TS_program_data(output, 1, 1, pmt_pid, video_pid, stream_type).
ProgramDataCall(e) ==
    [op |-> "write_TS_program_data", transport_stream_id |-> 1,
     program_number |-> 1, pmt_pid |-> pmt_pid, video_pid |-> video_pid,
     stream_type |-> stream_type, res |-> e]

\* A transfer_data that goes on after a failed write of the program data.
AfterProgramData_IgnoresError(e) == "build"

\* transfer_data after write_TS_program_data returned e: an error returns 1
\* to main, success enters the loop.
AfterProgramData(e) == IF e # 0 THEN "finish" ELSE "build"

\* transfer_data up to its loop: count = 0, then the PAT and the PMT.
WriteProgramData ==
    /\ pc = "psi"
    /\ count' = 0
    /\ \E e \in {0} \cup ErrCodes :
          /\ calls' = Append(calls, ProgramDataCall(e))
          /\ pc' = AfterProgramData(e)
          /\ err' = (IF e # 0 THEN 1 ELSE 0)
    /\ UNCHANGED <<tfVars, prVars, ii, cfgVars, es, output, unit, exit_status>>

\* transfer_data after find_and_build_next_ES_unit returned e: EOF leaves the
\* loop, any other error returns it, success goes on to write the unit.
AfterBuild(e) ==
    IF e = EOF THEN "finish"
    ELSE IF e # 0 THEN "finish"
    ELSE "write"

\* A loop with no EOF test: EOF is returned like any other error.
ReturnAfterBuild_EofIsError(e) == e

\* What transfer_data returns to main when it stops after the builder
\* returned e.
ReturnAfterBuild(e) == IF e = EOF THEN 0 ELSE e

\* The loop's first half: find_and_build_next_ES_unit, count++.
BuildUnit ==
    /\ pc = "build"
    /\ \E r \in find_and_build_next_ES_unit(es) :
          /\ calls' = Append(calls, [op |-> "find_and_build_next_ES_unit",
                                     unit |-> r.unit, res |-> r.res])
          /\ es' = r.es
          /\ pc' = AfterBuild(r.res)
          /\ IF AfterBuild(r.res) = "write"
             THEN /\ unit' = r.unit
                  /\ count' = count + 1
                  /\ UNCHANGED err
             ELSE /\ err' = ReturnAfterBuild(r.res)
                  /\ UNCHANGED <<unit, count>>
    /\ UNCHANGED <<tfVars, prVars, ii, cfgVars, output, exit_status>>

\* A write_ES_unit_as_TS that passes one byte less than the unit holds.
PESCall_ShortLength(u, pid, e) ==
    [op |-> "write_ES_as_TS_PES_packet", data |-> u.data,
     data_len |-> u.data_len - 1, pid |-> pid,
     stream_id |-> DEFAULT_VIDEO_STREAM_ID, res |-> e]

\* write_ES_unit_as_TS: the call
\* write_ES_as_TS_PES_packet(output, unit->data, unit->data_len, video_pid,
\* DEFAULT_VIDEO_STREAM_ID).
PESCall(u, pid, e) ==
    [op |-> "write_ES_as_TS_PES_packet", data |-> u.data,
     data_len |-> u.data_len, pid |-> pid,
     stream_id |-> DEFAULT_VIDEO_STREAM_ID, res |-> e]

\* A cap test that is off by one: `count > max2`.
CapReached_OffByOne(m, c) == m > 0 /\ c > m

\* transfer_data: `max2 > 0 && count >= max2`.
CapReached(m, c) == m > 0 /\ c >= m

\* A loop that does not test the result of write_ES_unit_as_TS.
AfterWrite_IgnoresError(e, m, c) ==
    IF CapReached(m, c) THEN "finish" ELSE "build"

\* transfer_data after write_ES_unit_as_TS returned e with c units counted:
\* an error returns it, the cap leaves the loop, otherwise the loop goes on.
AfterWrite(e, m, c) ==
    IF e # 0 THEN "finish"
    ELSE IF CapReached(m, c) THEN "finish"
    ELSE "build"

\* The loop's second half: write the unit, free it, check the cap.
WriteUnit ==
    /\ pc = "write"
    /\ \E e \in {0} \cup ErrCodes :
          /\ calls' = Append(calls, PESCall(unit, video_pid, e))
          /\ unit' = NoUnit
          /\ pc' = AfterWrite(e, max2, count)
          /\ err' = e
    /\ UNCHANGED <<tfVars, prVars, ii, cfgVars, es, output, count, exit_status>>

\* ------------------------------------------------------------ main: the end

\* main's return value after tswrite_close returned e2.
ExitCode(e, e2) == IF e2 # 0 THEN 1 ELSE IF e # 0 THEN 1 ELSE 0

\* main after transfer_data: close_elementary_stream, tswrite_close, return.
Finish ==
    /\ pc = "finish"
    /\ es' = close_elementary_stream(es)
    /\ \E e2 \in {0} \cup ErrCodes :
          /\ calls' = Append(calls, [op |-> "tswrite_close", quiet |-> quiet,
                                     res |-> e2])
          /\ output' = [output EXCEPT !.state = "closed", !.closes = @ + 1]
          /\ Return(ExitCode(err, e2))
    /\ UNCHANGED <<tfVars, prVars, ii, cfgVars, unit, count, err>>

\* ------------------------------------------------------------ specification

Next ==
    \/ SwHelp \/ SwForce \/ SwStdin \/ SwStdout \/ SwErr \/ SwHost
    \/ SwVerbose \/ SwQuiet \/ SwMax \/ SwPid \/ SwPmt
    \/ SwMissingValue \/ SwUnrecognised \/ Positional \/ EndArgs
    \/ OpenElementaryStream \/ DecideVideoType \/ OpenOutput
    \/ WriteProgramData \/ BuildUnit \/ WriteUnit \/ Finish

Spec == Init /\ [][Next]_vars

(***************************************************************************)
(* tsfilter: filter a transport stream by a list of PIDs.  One action is   *)
(* one iteration of main()'s command-line loop, one of the two opens, or   *)
(* one iteration of the packet loop.                                       *)
(***************************************************************************)

\* Most TS packets held by a modelled input.
MaxPkts == 3

\* PIDs given on the command line and carried by the packets (0x66, 0x68).
TfPids == {102, 104}
\* The packets an input may hold: the PID split_TS_packet finds in it, and
\* whether split_TS_packet succeeds on it.
TSPackets == [pid : TfPids, ok : BOOLEAN]
TSInputs == SeqsUpTo(TSPackets, MaxPkts)
\* What atoi may make of the value given to -max.
MaxValues == (-1)..MaxPkts
\* The status of a run that ends in a crash (128 + SIGSEGV, as a shell reports it).
Crashed == 139

\* tsfilter's main returns `status`.
TfReturn(status) ==
    /\ tf_pc' = "done"
    /\ tf_exit' = status

\* args[ii] exists (ii < argn).
TfHasArg == tf_pc = "parse" /\ ~tf_last /\ tf_ii <= MaxArgs
\* The values argn may have when args[tf_ii] exists.
TfArgn == (tf_ii + 1)..(MaxArgs + 1)

\* --help, -h, -help
TfHelp ==
    /\ TfHasArg
    /\ TfReturn(0)
    /\ UNCHANGED <<tf_ii, tf_last, invert, max_pkts, input_file, output_file,
                   pidList, pkt_num, tsreader, tswriter>>
    /\ UNCHANGED <<es2tsVars, prVars, pkt>>

\* -verbose, -v
TfVerbose ==
    /\ TfHasArg
    /\ tf_ii' = tf_ii + 1
    /\ UNCHANGED <<tf_pc, tf_exit, tf_last, invert, max_pkts, input_file,
                   output_file, pidList, pkt_num, tsreader, tswriter>>
    /\ UNCHANGED <<es2tsVars, prVars, pkt>>

\* A test that sees that no word follows the switch: `argn <= ii + 1`.
RequiresArgument_SeesLastWord(argn, i) == argn <= i + 1

\* main's test before it reads a switch's value: `argn <= ii`.
RequiresArgument(argn, i) == argn <= i

\* args[i + 1]: a word, or the null pointer that ends args when i + 1 = argn.
ArgAfter(argn, i, word) == IF i + 1 = argn THEN NullPtr ELSE word

\* -m <n>, -max <n>: max_pkts = atoi(args[ii + 1]).  atoi of the null
\* pointer is undefined: the program crashes, or goes on with any value.
TfMax ==
    /\ TfHasArg
    /\ \E argn \in TfArgn :
          IF RequiresArgument(argn, tf_ii)
          THEN /\ TfReturn(1)
               /\ tf_last' = (argn = tf_ii + 1)
               /\ UNCHANGED <<tf_ii, max_pkts>>
          ELSE \/ /\ \E n \in MaxValues : max_pkts' = ToUnsigned(n)
                  /\ tf_ii' = tf_ii + 2
                  /\ tf_last' = (ArgAfter(argn, tf_ii, "n") = NullPtr)
                  /\ UNCHANGED <<tf_pc, tf_exit>>
               \/ /\ ArgAfter(argn, tf_ii, "n") = NullPtr
                  /\ TfReturn(Crashed)
                  /\ tf_last' = TRUE
                  /\ UNCHANGED <<tf_ii, max_pkts>>
    /\ UNCHANGED <<invert, input_file, output_file, pidList, pkt_num,
                   tsreader, tswriter>>
    /\ UNCHANGED <<es2tsVars, prVars, pkt>>

\* -!, -invert
TfInvert ==
    /\ TfHasArg
    /\ invert' = 1
    /\ tf_ii' = tf_ii + 1
    /\ UNCHANGED <<tf_pc, tf_exit, tf_last, max_pkts, input_file,
                   output_file, pidList, pkt_num, tsreader, tswriter>>
    /\ UNCHANGED <<es2tsVars, prVars, pkt>>

\* -i <infile>, -input <infile>
TfInput ==
    /\ TfHasArg
    /\ \E argn \in TfArgn :
          IF RequiresArgument(argn, tf_ii)
          THEN /\ TfReturn(1)
               /\ tf_last' = (argn = tf_ii + 1)
               /\ UNCHANGED <<tf_ii, input_file>>
          ELSE /\ input_file' = ArgAfter(argn, tf_ii, "infile")
               /\ tf_ii' = tf_ii + 2
               /\ tf_last' = (ArgAfter(argn, tf_ii, "infile") = NullPtr)
               /\ UNCHANGED <<tf_pc, tf_exit>>
    /\ UNCHANGED <<invert, max_pkts, output_file, pidList, pkt_num,
                   tsreader, tswriter>>
    /\ UNCHANGED <<es2tsVars, prVars, pkt>>

\* -o <outfile>, -output <outfile>
TfOutput ==
    /\ TfHasArg
    /\ \E argn \in TfArgn :
          IF RequiresArgument(argn, tf_ii)
          THEN /\ TfReturn(1)
               /\ tf_last' = (argn = tf_ii + 1)
               /\ UNCHANGED <<tf_ii, output_file>>
          ELSE /\ output_file' = ArgAfter(argn, tf_ii, "outfile")
               /\ tf_ii' = tf_ii + 2
               /\ tf_last' = (ArgAfter(argn, tf_ii, "outfile") = NullPtr)
               /\ UNCHANGED <<tf_pc, tf_exit>>
    /\ UNCHANGED <<invert, max_pkts, input_file, pidList, pkt_num,
                   tsreader, tswriter>>
    /\ UNCHANGED <<es2tsVars, prVars, pkt>>

\* Any other word that starts with '-'.
TfUnrecognised ==
    /\ TfHasArg
    /\ TfReturn(1)
    /\ UNCHANGED <<tf_ii, tf_last, invert, max_pkts, input_file, output_file,
                   pidList, pkt_num, tsreader, tswriter>>
    /\ UNCHANGED <<es2tsVars, prVars, pkt>>

\* A word that does not start with '-': a PID, if strtoul reads all of it.
TfPid ==
    /\ TfHasArg
    /\ \/ /\ \E p \in TfPids : pidList' = Append(pidList, p)
          /\ tf_ii' = tf_ii + 1
          /\ UNCHANGED <<tf_pc, tf_exit>>
       \/ /\ TfReturn(1)
          /\ UNCHANGED <<tf_ii, pidList>>
    /\ UNCHANGED <<tf_last, invert, max_pkts, input_file, output_file,
                   pkt_num, tsreader, tswriter>>
    /\ UNCHANGED <<es2tsVars, prVars, pkt>>

\* The command line ends (ii >= argn).  With no word at all (argn < 2) main
\* prints the usage and returns 0; with no PID it returns 1.
TfEndArgs ==
    /\ tf_pc = "parse"
    /\ IF tf_ii = 1
       THEN TfReturn(0)
       ELSE IF Len(pidList) = 0
       THEN TfReturn(1)
       ELSE /\ tf_pc' = "open_in"
            /\ UNCHANGED tf_exit
    /\ pkt_num' = ToUnsigned(0)
    /\ UNCHANGED <<tf_ii, tf_last, invert, max_pkts, input_file, output_file,
                   pidList, tsreader, tswriter>>
    /\ UNCHANGED <<es2tsVars, prVars, pkt>>

\* open_file_for_TS_read(input_file, &tsreader); a null name reads stdin.
TfOpenInput ==
    /\ tf_pc = "open_in"
    /\ \E e \in {0} \cup ErrCodes :
          IF e # 0
          THEN /\ TfReturn(1)
               /\ UNCHANGED tsreader
          ELSE /\ \E input \in TSInputs :
                     tsreader' = [state |-> "open", packets |-> input,
                                  pos |-> 0, errors |-> 0, eof |-> FALSE]
               /\ tf_pc' = "open_out"
               /\ UNCHANGED tf_exit
    /\ UNCHANGED <<tf_ii, tf_last, invert, max_pkts, input_file, output_file,
                   pidList, pkt_num, tswriter>>
    /\ UNCHANGED <<es2tsVars, prVars, pkt>>

\* tswrite_open(TS_W_FILE, output_file, ...) or tswrite_open(TS_W_STDOUT, ...)
TfOpenOutput ==
    /\ tf_pc = "open_out"
    /\ \E e \in {0} \cup ErrCodes :
          IF e # 0
          THEN /\ TfReturn(1)
               /\ UNCHANGED tswriter
          ELSE /\ tswriter' = [state |-> "open",
                               how |-> IF output_file # NullPtr
                                       THEN TS_W_FILE ELSE TS_W_STDOUT,
                               written |-> <<>>]
               /\ tf_pc' = "loop"
               /\ UNCHANGED tf_exit
    /\ UNCHANGED <<tf_ii, tf_last, invert, max_pkts, input_file, output_file,
                   pidList, pkt_num, tsreader>>
    /\ UNCHANGED <<es2tsVars, prVars, pkt>>

\* A search that stops one short of the end of the list.
PidListed_SkipsLast(pid) ==
    \E i \in 1..(Len(pidList) - 1) : pidList[i] = pid

\* main's search of pidList[0 .. pidListUsed - 1] for the packet's PID.
PidListed(pid) ==
    \E i \in 1..Len(pidList) : pidList[i] = pid

\* main: `max_pkts != (unsigned int)-1 && pkt_num > max_pkts`.
CutoffReached(m, n) == m # NoMax /\ UIntGreater(n, m)

\* What main does with a packet that split_TS_packet found `pid` in:
\* past the cutoff it leaves the loop, or with -invert takes the packet as
\* not found; -invert inverts the result; a found packet is written.
TfDecision(pid) ==
    LET cut == CutoffReached(max_pkts, pkt_num)
        found == IF cut THEN FALSE ELSE PidListed(pid)
    IN  IF cut /\ invert = 0 THEN "break"
        ELSE IF (IF invert # 0 THEN ~found ELSE found) THEN "write"
        ELSE "skip"

\* The end of main: tswrite_close, close_TS_reader, return 0.
TfCloseAndReturn(reader) ==
    /\ tswriter' = [tswriter EXCEPT !.state = "closed"]
    /\ tsreader' = [reader EXCEPT !.state = "closed"]
    /\ TfReturn(0)

\* A loop that gives up on a packet that does not split.
AfterSplitError_EndsRun == "break"

\* main after split_TS_packet failed: it reports the error and goes on.
AfterSplitError == "skip"

\* Most calls of read_next_TS_packet that fail in a modelled run.
MaxReadErrors == 1

\* An iteration of the packet loop after read_next_TS_packet returned anything
\* but EOF: split_TS_packet on pkt (the packet at index `at`, 0 for none)
\* succeeds or not and finds `pid`; the decision; tswrite_write; ++pkt_num.
TfSplitAndFilter(reader, at, ok, pid) ==
    LET what == IF ok THEN TfDecision(pid) ELSE AfterSplitError
    IN  CASE what = "break" ->
                  /\ TfCloseAndReturn(reader)
                  /\ UNCHANGED pkt_num
             [] what = "write" ->
                  /\ tsreader' = reader
                  /\ \E e \in {0} \cup ErrCodes :
                        /\ tswriter' = [tswriter EXCEPT !.written =
                               Append(@, [at |-> at, pid |-> pid, res |-> e])]
                        /\ IF e # 0
                           THEN /\ TfReturn(2)
                                /\ UNCHANGED pkt_num
                           ELSE /\ pkt_num' = UIntSucc(pkt_num)
                                /\ UNCHANGED <<tf_pc, tf_exit>>
             [] OTHER ->
                  /\ tsreader' = reader
                  /\ pkt_num' = (IF ok THEN UIntSucc(pkt_num) ELSE pkt_num)
                  /\ UNCHANGED <<tswriter, tf_pc, tf_exit>>

\* One iteration of the packet loop on the next packet of the input:
\* read_next_TS_packet returns 0 and points pkt at the packet.
TfFilterPacket ==
    /\ tf_pc = "loop"
    /\ tsreader.pos < Len(tsreader.packets)
    /\ LET at == tsreader.pos + 1
       IN  /\ pkt' = at
           /\ TfSplitAndFilter([tsreader EXCEPT !.pos = at], at,
                               tsreader.packets[at].ok, tsreader.packets[at].pid)
    /\ UNCHANGED <<tf_ii, tf_last, invert, max_pkts, input_file, output_file,
                   pidList>>
    /\ UNCHANGED <<es2tsVars, prVars>>

\* One iteration in which read_next_TS_packet fails with something other than
\* EOF.  main tests for EOF only and goes on to split_TS_packet with pkt as
\* the call left it: still on the packet of the read before, or null.
\* split_TS_packet on the stale packet does what it did before; on a null
\* pointer it fails, or crashes, or reports success with whatever PID.
TfReadError ==
    /\ tf_pc = "loop"
    /\ tsreader.errors < MaxReadErrors
    /\ \E e \in ErrCodes, held \in {pkt, 0} :
          LET reader == [tsreader EXCEPT !.errors = @ + 1]
          IN  /\ pkt' = held
              /\ IF held # 0
                 THEN TfSplitAndFilter(reader, held, tsreader.packets[held].ok,
                                       tsreader.packets[held].pid)
                 ELSE \/ \E ok \in BOOLEAN, pid \in TfPids :
                            TfSplitAndFilter(reader, 0, ok, pid)
                      \/ /\ TfReturn(Crashed)
                         /\ tsreader' = reader
                         /\ UNCHANGED <<tswriter, pkt_num>>
    /\ UNCHANGED <<tf_ii, tf_last, invert, max_pkts, input_file, output_file,
                   pidList>>
    /\ UNCHANGED <<es2tsVars, prVars>>

\* read_next_TS_packet returns EOF: the loop ends.
TfEndOfInput ==
    /\ tf_pc = "loop"
    /\ tsreader.pos = Len(tsreader.packets)
    /\ TfCloseAndReturn([tsreader EXCEPT !.eof = TRUE])
    /\ UNCHANGED <<tf_ii, tf_last, invert, max_pkts, input_file, output_file,
                   pidList, pkt_num>>
    /\ UNCHANGED <<es2tsVars, prVars, pkt>>

FilterNext ==
    \/ TfHelp \/ TfVerbose \/ TfMax \/ TfInvert \/ TfInput \/ TfOutput
    \/ TfUnrecognised \/ TfPid \/ TfEndArgs
    \/ TfOpenInput \/ TfOpenOutput \/ TfFilterPacket \/ TfReadError \/ TfEndOfInput

SpecFilter == Init /\ [][FilterNext]_vars

\* ------------------------------------------------- printing.h on its own

\* How many calls of the printing functions the log keeps.
MaxPrints == 1

\* The stream one of the header's own functions writes to; a function supplied
\* by the caller writes wherever the caller chose.
StreamOf(fn) ==
    IF fn \in {"print_message_to_stdout", "fprint_message_to_stdout", "flush_stdout"}
    THEN "stdout"
    ELSE IF fn \in {"print_message_to_stderr", "fprint_message_to_stderr"}
    THEN "stderr"
    ELSE "caller"

\* The arguments a caller can hand to redirect_output: each one is either null
\* or a function of the caller's own, a different one for each parameter.
RedirectArgs ==
    [new_print_message_fn : {NullPtr, "caller_print_message"},
     new_print_error_fn : {NullPtr, "caller_print_error"},
     new_fprint_message_fn : {NullPtr, "caller_fprint_message"},
     new_fprint_error_fn : {NullPtr, "caller_fprint_error"},
     new_flush_msg_fn : {NullPtr, "caller_flush"}]

\* redirect_output without the null test on the flush function.
redirect_output_FlushUnchecked(f, a) ==
    IF \/ a.new_print_message_fn = NullPtr \/ a.new_print_error_fn = NullPtr
       \/ a.new_fprint_message_fn = NullPtr \/ a.new_fprint_error_fn = NullPtr
    THEN [ret |-> 1, fns |-> f]
    ELSE [ret |-> 0,
          fns |-> [print_message_fn |-> a.new_print_message_fn,
                   print_error_fn |-> a.new_print_error_fn,
                   fprint_message_fn |-> a.new_fprint_message_fn,
                   fprint_error_fn |-> a.new_fprint_error_fn,
                   flush_message_fn |-> a.new_flush_msg_fn]]

\* redirect_output(...) called while the table is f: its return value and the
\* table afterwards.
redirect_output(f, a) ==
    IF \/ a.new_print_message_fn = NullPtr \/ a.new_print_error_fn = NullPtr
       \/ a.new_fprint_message_fn = NullPtr \/ a.new_fprint_error_fn = NullPtr
       \/ a.new_flush_msg_fn = NullPtr
    THEN [ret |-> 1, fns |-> f]
    ELSE [ret |-> 0,
          fns |-> [print_message_fn |-> a.new_print_message_fn,
                   print_error_fn |-> a.new_print_error_fn,
                   fprint_message_fn |-> a.new_fprint_message_fn,
                   fprint_error_fn |-> a.new_fprint_error_fn,
                   flush_message_fn |-> a.new_flush_msg_fn]]

\* What every printing action leaves alone: everything of es2ts but fns, and
\* all of tsfilter.
PrFrame ==
    UNCHANGED <<tfVars, pc, ii, exit_status, runVars, use_stdin, use_stdout, use_tcpip,
                had_input_name, had_output_name, verbose, quiet, max2, video_pid,
                pmt_pid, video_type, force_stream_type, stream_type>>

PrRedirectStderr ==
    /\ fns' = redirect_output_stderr
    /\ pr_last' = [op |-> "redirect_output_stderr"]
    /\ UNCHANGED pr_log
    /\ PrFrame

PrRedirectStdout ==
    /\ fns' = redirect_output_stdout
    /\ pr_last' = [op |-> "redirect_output_stdout"]
    /\ UNCHANGED pr_log
    /\ PrFrame

PrRedirectOutput ==
    \E a \in RedirectArgs :
        LET r == redirect_output(fns, a) IN
        /\ fns' = r.fns
        /\ pr_last' = [op |-> "redirect_output", args |-> a, before |-> fns,
                       ret |-> r.ret]
        /\ UNCHANGED pr_log
        /\ PrFrame

\* A call of a printing function: the log notes which call it was, the
\* redirect call in effect and, in order, what it wrote: whether the text was an
\* error message, the stream it reached, and whether it went through the table.
Logged(call, wrote) ==
    /\ Len(pr_log) < MaxPrints
    /\ pr_log' = Append(pr_log, [call |-> call, after |-> pr_last.op, wrote |-> wrote])
    /\ UNCHANGED <<fns, pr_last>>
    /\ PrFrame

\* One text sent through the table entry fn.
ThroughTable(error, fn) == [error |-> error, to |-> StreamOf(fn), table |-> TRUE]

\* One text sent straight to a stream (std::cout, std::cerr).
Direct(error, stream) == [error |-> error, to |-> stream, table |-> FALSE]

Printed(call, error, fn) == Logged(call, <<ThroughTable(error, fn)>>)

print_msg == Printed("print_msg", FALSE, fns.print_message_fn)

print_err == Printed("print_err", TRUE, fns.print_error_fn)

fprint_msg == Printed("fprint_msg", FALSE, fns.fprint_message_fn)

fprint_err == Printed("fprint_err", TRUE, fns.fprint_error_fn)

fprint_msg_or_err ==
    \E is_msg \in BOOLEAN :
        Printed("fprint_msg_or_err", ~is_msg,
                IF is_msg THEN fns.fprint_message_fn ELSE fns.fprint_error_fn)

flush_msg == Printed("flush_msg", FALSE, fns.flush_message_fn)

\* test_C_printing: a message to std::cout and an error to std::cerr, past the
\* table, then fprint_msg and fprint_err.
test_C_printing ==
    Logged("test_C_printing",
           <<Direct(FALSE, "stdout"), Direct(TRUE, "stderr"),
             ThroughTable(FALSE, fns.fprint_message_fn),
             ThroughTable(TRUE, fns.fprint_error_fn)>>)

PrintingNext ==
    \/ PrRedirectStderr \/ PrRedirectStdout \/ PrRedirectOutput
    \/ print_msg \/ print_err \/ fprint_msg \/ fprint_err \/ fprint_msg_or_err
    \/ flush_msg \/ test_C_printing

SpecPrinting == Init /\ [][PrintingNext]_vars

\* ------------------------------------------------- reading the call history

IsProgramData(c) == c.op = "write_TS_program_data"
IsBuild(c) == c.op = "find_and_build_next_ES_unit"
IsPES(c) == c.op = "write_ES_as_TS_PES_packet"
IsDecide(c) == c.op = "decide_ES_file_video_type"
IsOpenES(c) == c.op = "open_elementary_stream"
IsOpenOutput(c) == c.op = "tswrite_open"
IsCloseOutput(c) == c.op = "tswrite_close"

\* The places in the history of the calls that satisfy Test.
Places(Test(_)) == {i \in DOMAIN calls : Test(calls[i])}
\* The units the builder returned, and the PES writes asked for, in order.
UnitsBuilt == SelectSeq(calls, LAMBDA c : IsBuild(c) /\ c.res = 0)
PESWrites == SelectSeq(calls, IsPES)
PESWritten == SelectSeq(calls, LAMBDA c : IsPES(c) /\ c.res = 0)

RECURSIVE Concat(_)
Concat(ss) == IF ss = <<>> THEN <<>> ELSE Head(ss) \o Concat(Tail(ss))
DataOf(cs) == [i \in DOMAIN cs |-> cs[i].data]
UnitDataOf(us) == [i \in DOMAIN us |-> us[i].data]
Min(a, b) == IF a <= b THEN a ELSE b

\* transfer_data has been entered / has returned to main.
InTransfer == pc \in {"build", "write"}
TransferReturned == pc = "finish" \/ (pc = "done" /\ output.state = "closed")
\* main has returned after opening the input / the output.
Exited == pc = "done"

\* ------------------------------------------------------------------ claims

\* C1: the program data (PAT, PMT) is written exactly once per run of
\* transfer_data, with transport stream id 1, program 1 and main's pmt_pid,
\* video_pid and stream_type, strictly before any ES unit is read or
\* written; no program data is written after an ES unit; and when writing
\* the program data fails no ES unit is read or written.
C1_ProgramDataFirst ==
    /\ Cardinality(Places(IsProgramData)) <= 1
    /\ (InTransfer \/ TransferReturned) => Cardinality(Places(IsProgramData)) = 1
    /\ \A i \in Places(IsProgramData) :
          /\ calls[i].transport_stream_id = 1
          /\ calls[i].program_number = 1
          /\ calls[i].pmt_pid = pmt_pid
          /\ calls[i].video_pid = video_pid
          /\ calls[i].stream_type = stream_type
          /\ calls[i].res # 0 =>
                Places(IsBuild) \cup Places(IsPES) = {}
    /\ \A i \in Places(IsBuild) \cup Places(IsPES) :
          /\ \E j \in Places(IsProgramData) : j < i /\ calls[j].res = 0
          /\ \A j \in Places(IsProgramData) : j < i

C1_Witness ==
    /\ Exited
    /\ exit_status = 0
    /\ Len(PESWritten) = 2
    /\ IsProgramData(calls[Len(calls) - 6])

\* C2: with no error and no cap, the (data, data_len) buffers handed to the
\* PES writer on video_pid are exactly the units the builder returned, in
\* order, one write per unit, unmodified; their concatenation is the input
\* from its first startcode onward.
C2_UnitsWrittenInOrder ==
    /\ Len(PESWrites) = Len(UnitsBuilt) - (IF pc = "write" THEN 1 ELSE 0)
    /\ \A i \in DOMAIN PESWrites :
          /\ PESWrites[i].data = UnitsBuilt[i].unit.data
          /\ PESWrites[i].data_len = UnitsBuilt[i].unit.data_len
          /\ PESWrites[i].data_len = Len(PESWrites[i].data)
          /\ PESWrites[i].pid = video_pid
          /\ PESWrites[i].stream_id = 224
    /\ (TransferReturned /\ err = 0 /\ max2 = 0) =>
          /\ Len(PESWritten) = Len(es.units)
          /\ DataOf(PESWritten) = UnitDataOf(es.units)
          /\ Concat(DataOf(PESWritten)) = Concat(UnitDataOf(es.units))

C2_Witness ==
    /\ Exited
    /\ err = 0
    /\ max2 = 0
    /\ Len(PESWritten) = 2
    /\ PESWritten[1].data # PESWritten[2].data

\* C3: when transfer_data succeeds on an input of k units, it has written
\* min(k, n) units under a cap n > 0 and k units with no cap (n = 0); it
\* reads no unit after the n-th was written; main then returns 0 unless
\* closing the output fails.
C3_CapHonoured ==
    (TransferReturned /\ err = 0) =>
        LET k == Len(es.units)
            n == max2
        IN  /\ Len(PESWritten) = (IF n > 0 THEN Min(k, n) ELSE k)
            /\ Len(PESWrites) = Len(PESWritten)
            /\ Cardinality(Places(IsBuild)) = (IF n > 0 /\ k >= n THEN n ELSE k + 1)
            /\ count = Len(PESWritten)
            /\ (Exited /\ calls[Len(calls)].res = 0) => exit_status = 0

C3_Witness ==
    /\ Exited
    /\ exit_status = 0
    /\ max2 = 1
    /\ Len(es.units) = 2
    /\ Len(PESWritten) = 1

\* C4: the stream_type passed to the program data writer is 0x02 for H.262,
\* 0x1B for H.264 and 0x42 for AVS, by the video type in effect, detected
\* or forced; no other value is passed.
C4_StreamTypeOfVideoType ==
    /\ \A i \in Places(IsProgramData) :
          /\ video_type = VIDEO_H262 => calls[i].stream_type = 2
          /\ video_type = VIDEO_H264 => calls[i].stream_type = 27
          /\ video_type = VIDEO_AVS => calls[i].stream_type = 66
          /\ calls[i].stream_type \in {2, 27, 66}
    /\ pc \in {"open_out", "psi"} =>
          /\ video_type \in {VIDEO_H262, VIDEO_H264, VIDEO_AVS}
          /\ video_type = VIDEO_H262 => stream_type = 2
          /\ video_type = VIDEO_H264 => stream_type = 27
          /\ video_type = VIDEO_AVS => stream_type = 66

C4_Witness ==
    /\ ~force_stream_type
    /\ video_type = VIDEO_AVS
    /\ \E i \in Places(IsProgramData) : calls[i].stream_type = 66

\* C5: once the input is open, the type detector is called if and only if
\* no type was forced and the input is not stdin; a forced type stays as
\* forced; on stdin with no forced type the type is H.262.
C5_DetectionState ==
    /\ Places(IsDecide) # {} => ~force_stream_type /\ ~use_stdin
    /\ Cardinality(Places(IsDecide)) <= 1
    /\ (es.state # "none" /\ pc # "decide" /\ ~force_stream_type /\ ~use_stdin)
          => Places(IsDecide) # {}
    /\ pc = "decide" => ~force_stream_type /\ ~use_stdin
    /\ (~force_stream_type /\ Places(IsDecide) = {}) => video_type = VIDEO_H262
    /\ (use_stdin /\ ~force_stream_type) =>
          \A i \in Places(IsProgramData) : calls[i].stream_type = 2

C5_DetectionIffNotForcedNotStdin ==
    /\ []C5_DetectionState
    /\ [][(pc # "parse" /\ force_stream_type) =>
             (video_type' = video_type /\ force_stream_type')]_vars

C5_Witness ==
    /\ use_stdin
    /\ ~force_stream_type
    /\ Places(IsProgramData) # {}
    /\ Exited

\* C6: when detection fails or yields VIDEO_UNKNOWN (no type being forced),
\* main has returned 1 without opening the output and without writing
\* program data or units, and the input is closed.
C6_UnknownTypeIsFatal ==
    ((\E i \in Places(IsDecide) : calls[i].res # 0) \/ video_type = VIDEO_UNKNOWN) =>
        /\ ~force_stream_type
        /\ Exited
        /\ exit_status = 1
        /\ output.state = "none"
        /\ Places(IsOpenOutput) = {}
        /\ Places(IsProgramData) \cup Places(IsBuild) \cup Places(IsPES) = {}
        /\ es.state = "closed"
        /\ es.closes = 1

C6_Witness ==
    /\ video_type = VIDEO_UNKNOWN
    /\ Exited
    /\ Places(IsDecide) # {}

\* C7: the input, once opened, is closed exactly once by the time main
\* returns, and never more than once; so is the output.
C7_HandlesReleasedOnce ==
    /\ es.closes <= 1
    /\ output.closes <= 1
    /\ Cardinality(Places(IsCloseOutput)) = output.closes
    /\ es.state = "closed" <=> es.closes = 1
    /\ output.state = "closed" <=> output.closes = 1
    /\ (Exited /\ \E i \in Places(IsOpenES) : calls[i].res = 0) =>
          es.state = "closed"
    /\ (Exited /\ \E i \in Places(IsOpenOutput) : calls[i].res = 0) =>
          output.state = "closed"
    /\ ~Exited => es.closes = 0 /\ output.closes = 0

C7_Witness ==
    /\ Exited
    /\ es.closes = 1
    /\ output.state = "none"
    /\ \E i \in Places(IsOpenOutput) : calls[i].res # 0

\* C8: after the first failure (not EOF) of the program data write, of the
\* unit builder or of a unit write, no further unit is read or written, no
\* unit is left in hand, transfer_data returns non-zero to main, and main
\* returns 1 with both handles closed.
IsTransferCall(c) == IsProgramData(c) \/ IsBuild(c) \/ IsPES(c)
IsFailure(c) == IsTransferCall(c) /\ c.res # 0 /\ c.res # EOF

C8_FirstErrorEndsTransfer ==
    \A i \in Places(IsFailure) :
        /\ \A j \in Places(IsTransferCall) : j <= i
        /\ unit = NoUnit
        /\ err # 0
        /\ TransferReturned
        /\ Exited =>
              /\ exit_status = 1
              /\ es.state = "closed"
              /\ output.state = "closed"

C8_Witness ==
    /\ Exited
    /\ exit_status = 1
    /\ Len(PESWritten) = 1
    /\ Len(PESWrites) = 2
    /\ IsFailure(calls[Len(calls) - 1])

\* C9: when the first call of the unit builder returns EOF, the program data
\* has been written, no unit is written, transfer_data returns 0, and main
\* returns 0 if closing the output succeeds.
C9_EmptyInput ==
    (UnitsBuilt = <<>> /\ \E i \in Places(IsBuild) : calls[i].res = EOF) =>
        /\ Cardinality(Places(IsBuild)) = 1
        /\ \E i \in Places(IsProgramData) : calls[i].res = 0
        /\ Cardinality(Places(IsProgramData)) = 1
        /\ PESWrites = <<>>
        /\ count = 0
        /\ TransferReturned
        /\ err = 0
        /\ (Exited /\ calls[Len(calls)].res = 0) => exit_status = 0

C9_Witness ==
    /\ Exited
    /\ exit_status = 0
    /\ es.units = <<>>
    /\ Cardinality(Places(IsBuild)) = 1

\* C10: the input is only ever opened, and the pipeline only ever runs, with
\* a video PID and a PMT PID that are neither 0x0000 nor 0x1FFF and differ.
PidReserved(p) == p = 0 \/ p = 8191

C10_PidsValidated ==
    Places(IsOpenES) # {} =>
        /\ ~PidReserved(video_pid)
        /\ ~PidReserved(pmt_pid)
        /\ video_pid # pmt_pid

\* C11: whenever -stdout was given, the pipeline runs with quiet on, verbose
\* off and error messages (formatted and unformatted) routed to stderr.
C11_StdoutForcesQuietStderr ==
    (use_stdout /\ pc \notin {"parse", "done"}) =>
        /\ quiet
        /\ ~verbose
        /\ fns.print_error_fn = "print_message_to_stderr"
        /\ fns.fprint_error_fn = "fprint_message_to_stderr"

\* ------------------------------------------------------- tsfilter's claims

\* The packets read so far that split, and the writes asked for.
TfSplit(k) == tsreader.packets[k].ok
\* How many packets before the k-th split: the k-th packet is the
\* (SplitBefore(k) + 1)-th packet that main filters.
SplitBefore(k) == Cardinality({j \in 1..(k - 1) : TfSplit(j)})
TfWritten(k) == \E i \in DOMAIN tswriter.written : tswriter.written[i].at = k
TfListed(k) == \E j \in DOMAIN pidList : pidList[j] = tsreader.packets[k].pid

\* C12: a packet that splits, among the first n that do under -max n (any
\* packet without -max), is written if and only if its PID is listed XOR
\* -invert was given; the writes are in input order, each packet at most
\* once, with the packet's PID; a packet that does not split is not written
\* and does not end the run.
C12_FilterByPidList ==
    LET W == tswriter.written
    IN  /\ \A k \in 1..tsreader.pos :
              (TfSplit(k) /\ (max_pkts = NoMax
                             \/ UIntGreater(max_pkts, ToUnsigned(SplitBefore(k))))) =>
                  (TfWritten(k) <=> (TfListed(k) # (invert # 0)))
        /\ \A k \in 1..tsreader.pos : ~TfSplit(k) => ~TfWritten(k)
        /\ \A i \in DOMAIN W :
              /\ W[i].at \in 1..tsreader.pos
              /\ W[i].pid = tsreader.packets[W[i].at].pid
              /\ \A j \in DOMAIN W : i < j => W[i].at < W[j].at
        /\ (tsreader.pos >= 1 /\ ~TfSplit(tsreader.pos) /\ ~tsreader.eof) =>
              tf_pc = "loop"

\* C13: under -max n the packets after the n-th are taken as matching no
\* PID: without -invert none of them is written, with -invert each of them
\* is written.
C13_CutoffAfterNth ==
    max_pkts # NoMax =>
        \A k \in 1..tsreader.pos :
            (TfSplit(k) /\ ~UIntGreater(max_pkts, ToUnsigned(SplitBefore(k)))) =>
                (TfWritten(k) <=> invert # 0)

\* C16: when -max, -input or -output is the last word, main returns 1
\* without reading a value for it and without opening the input or the
\* output.
C16_MissingValueRejected ==
    tf_last =>
        /\ tf_pc = "done"
        /\ tf_exit = 1
        /\ max_pkts = NoMax
        /\ input_file = NullPtr
        /\ output_file = NullPtr
        /\ tsreader.state = "none"
        /\ tswriter.state = "none"

\* ------------------------------------------------------ printing.h claims

\* The stream a print call must reach under the routing a redirect call set up:
\* all to stdout at the start and after redirect_output_stdout; errors to
\* stderr and the rest to stdout after redirect_output_stderr.
RoutingOf(op, error) ==
    IF op = "redirect_output_stderr" /\ error THEN "stderr" ELSE "stdout"

StdRedirects == {"none", "redirect_output_stdout", "redirect_output_stderr"}

\* C14: the table routes by the most recent redirect call. At the start and
\* after redirect_output_stdout all four print entries (and the flush) go to
\* stdout; after redirect_output_stderr the two error entries go to stderr and
\* the message entries to stdout; and every text a printing function sent
\* through the table reached the stream that the redirect call in effect at
\* that moment prescribes.
C14_RoutingFollowsLastRedirect ==
    /\ pr_last.op \in StdRedirects =>
           /\ StreamOf(fns.print_message_fn) = RoutingOf(pr_last.op, FALSE)
           /\ StreamOf(fns.fprint_message_fn) = RoutingOf(pr_last.op, FALSE)
           /\ StreamOf(fns.print_error_fn) = RoutingOf(pr_last.op, TRUE)
           /\ StreamOf(fns.fprint_error_fn) = RoutingOf(pr_last.op, TRUE)
           /\ StreamOf(fns.flush_message_fn) = "stdout"
    /\ \A i \in DOMAIN pr_log :
           pr_log[i].after \in StdRedirects =>
               \A k \in DOMAIN pr_log[i].wrote :
                   LET w == pr_log[i].wrote[k]
                   IN  w.table => w.to = RoutingOf(pr_log[i].after, w.error)

\* An error was printed to stderr after redirect_output_stderr, and then
\* redirect_output_stdout put the error entries back on stdout.
C14_Witness ==
    /\ Len(pr_log) = 1
    /\ pr_log[1] = [call |-> "print_err", after |-> "redirect_output_stderr",
                    wrote |-> <<[error |-> TRUE, to |-> "stderr", table |-> TRUE]>>]
    /\ pr_last.op = "redirect_output_stdout"
    /\ StreamOf(fns.print_error_fn) = "stdout"
    /\ StreamOf(fns.fprint_error_fn) = "stdout"

AnyNull(a) ==
    \/ a.new_print_message_fn = NullPtr \/ a.new_print_error_fn = NullPtr
    \/ a.new_fprint_message_fn = NullPtr \/ a.new_fprint_error_fn = NullPtr
    \/ a.new_flush_msg_fn = NullPtr

\* C15: after a call of redirect_output, if any of the five arguments was null
\* the call returned 1 and the table is what it was before the call; otherwise
\* it returned 0 and each of the five entries is the argument given for it.
C15_RedirectOutputAllOrNothing ==
    pr_last.op = "redirect_output" =>
        IF AnyNull(pr_last.args)
        THEN pr_last.ret = 1 /\ fns = pr_last.before
        ELSE /\ pr_last.ret = 0
             /\ fns.print_message_fn = pr_last.args.new_print_message_fn
             /\ fns.print_error_fn = pr_last.args.new_print_error_fn
             /\ fns.fprint_message_fn = pr_last.args.new_fprint_message_fn
             /\ fns.fprint_error_fn = pr_last.args.new_fprint_error_fn
             /\ fns.flush_message_fn = pr_last.args.new_flush_msg_fn

\* redirect_output refused a call whose only null argument was the flush
\* function, made while errors were routed to stderr.
C15_Witness ==
    /\ pr_last.op = "redirect_output"
    /\ pr_last.ret = 1
    /\ pr_last.args.new_flush_msg_fn = NullPtr
    /\ pr_last.args.new_print_message_fn # NullPtr
    /\ pr_last.args.new_print_error_fn # NullPtr
    /\ pr_last.args.new_fprint_message_fn # NullPtr
    /\ pr_last.args.new_fprint_error_fn # NullPtr
    /\ pr_last.before = redirect_output_stderr
    /\ fns = redirect_output_stderr

====
